---- MODULE Spec2Model ----
(***************************************************************************)
(* Model of transaction_processor.py: the cleaning pipeline (clean_data),  *)
(* the ticker index, the analytics summary and the cleaning report.        *)
(*                                                                         *)
(* Python values are tagged tuples, so that a value of the wrong type is   *)
(* something an operation can meet:                                        *)
(*     <<"str", s>>   <<"None">>   <<"int", n>>                            *)
(*     <<"float", "num", n>>   <<"float", "nan", 0>>                       *)
(*     <<"datetime", day, hour>>                                           *)
(* A dict is the sequence of its <<key, value>> items in insertion order.  *)
(***************************************************************************)
EXTENDS Integers, Sequences, FiniteSets, TLC

VARIABLES raw_rows, pc, i, seen, unique, cnt, clean, cleaning_log, exc, run,
          report, index, summary, lookup

vars == <<raw_rows, pc, i, seen, unique, cnt, clean, cleaning_log, exc, run,
          report, index, summary, lookup>>

-----------------------------------------------------------------------------
(* Values *)

None == <<"None">>
S(s) == <<"str", s>>
I(n) == <<"int", n>>
F(n) == <<"float", "num", n>>
NaN == <<"float", "nan", 0>>
Dt(d, h) == <<"datetime", d, h>>

IsStr(v) == v[1] = "str"
IsNone(v) == v[1] = "None"

(* The key csv.DictReader gives the surplus cells of a row longer than the *)
(* header (restkey=None), and the value it gives them (a list).            *)
RestKey == "<None>"
RestList == <<"list">>

(* dict helpers: membership, row[k], row.get(k, default) *)
Keys(d) == {d[n][1] : n \in 1..Len(d)}
HasKey(d, k) == k \in Keys(d)
Item(d, k) == d[CHOOSE n \in 1..Len(d) : d[n][1] = k][2]
Get(d, k, default) == IF HasKey(d, k) THEN Item(d, k) ELSE default

-----------------------------------------------------------------------------
(* Strings of the model and what str.strip, str.upper, float, int and      *)
(* datetime.strptime make of them.                                         *)

TsA == "2024-01-01 15:00:00"
TsB == "2024-01-02 09:00:00"
TsC == "2024-01-02 15:00:00"
TsAPadded == " 2024-01-01 15:00:00 "
TsMalformed == "01/02/2024"

Strip(s) ==
    CASE s = TsAPadded -> TsA
      [] s = "  " -> ""
      [] s = " aapl " -> "aapl"
      [] s = " 100 " -> "100"
      [] s = " 7 " -> "7"
      [] s = " t2 " -> "t2"
      [] OTHER -> s

Upper(s) ==
    CASE s = "aapl" -> "AAPL"
      [] s = " aapl " -> " AAPL "
      [] s = "msft" -> "MSFT"
      [] s = "goog" -> "GOOG"
      [] s = "sell" -> "SELL"
      [] s = "buy" -> "BUY"
      [] OTHER -> s

Ok(v) == <<"ok", v>>
Err(e) == <<"err", e>>
IsOk(r) == r[1] = "ok"

(* float(x): a str is stripped and parsed ("nan" is a float), a number is  *)
(* converted, anything else is a TypeError.                                *)
ParseFloat(s) ==
    CASE Strip(s) = "100" -> Ok(F(100))
      [] Strip(s) = "250" -> Ok(F(250))
      [] Strip(s) = "0" -> Ok(F(0))
      [] Strip(s) = "-5" -> Ok(F(0 - 5))
      [] Strip(s) = "nan" -> Ok(NaN)
      [] OTHER -> Err("ValueError")

FloatOf(v) ==
    CASE v[1] = "str" -> ParseFloat(v[2])
      [] v[1] = "float" -> Ok(v)
      [] v[1] = "int" -> Ok(F(v[2]))
      [] OTHER -> Err("TypeError")

(* int(x): a str is stripped and parsed as a decimal integer.              *)
ParseInt(s) ==
    CASE Strip(s) = "10" -> Ok(I(10))
      [] Strip(s) = "7" -> Ok(I(7))
      [] Strip(s) = "0" -> Ok(I(0))
      [] Strip(s) = "-3" -> Ok(I(0 - 3))
      [] OTHER -> Err("ValueError")

IntOf(v) ==
    CASE v[1] = "str" -> ParseInt(v[2])
      [] v[1] = "int" -> Ok(v)
      [] v[1] = "float" -> IF v[2] = "num" THEN Ok(I(v[3])) ELSE Err("ValueError")
      [] OTHER -> Err("TypeError")

(* datetime.strptime(s, "%Y-%m-%d %H:%M:%S") *)
Strptime(s) ==
    CASE s = TsA -> Ok(Dt(1, 15))
      [] s = TsB -> Ok(Dt(2, 9))
      [] s = TsC -> Ok(Dt(2, 15))
      [] OTHER -> Err("ValueError")

(* price <= 0 and quantity <= 0: every comparison with nan is False *)
LeZero(v) ==
    CASE v[1] = "int" -> v[2] <= 0
      [] v[1] = "float" -> v[2] = "num" /\ v[3] <= 0

(* datetime order, the sort key of line 101 *)
DtLess(a, b) == a[2] < b[2] \/ (a[2] = b[2] /\ a[3] < b[3])

-----------------------------------------------------------------------------
(* clean_data, phase 1: exact-duplicate removal (lines 20-32) *)

(* Python's order on the field names, which sorted(row.items()) compares.  *)
KeyRank(k) ==
    CASE k = "action" -> 1
      [] k = "price" -> 2
      [] k = "quantity" -> 3
      [] k = "ticker" -> 4
      [] k = "timestamp" -> 5
      [] k = "trader_id" -> 6

RECURSIVE InsertItem(_, _)
InsertItem(sorted, item) ==
    IF sorted = <<>> THEN <<item>>
    ELSE IF KeyRank(item[1]) < KeyRank(Head(sorted)[1])
         THEN <<item>> \o sorted
         ELSE <<Head(sorted)>> \o InsertItem(Tail(sorted), item)

RECURSIVE SortedItems(_)
SortedItems(items) ==
    IF items = <<>> THEN <<>>
    ELSE InsertItem(SortedItems(SubSeq(items, 1, Len(items) - 1)), items[Len(items)])

KeyUnsorted(row) == Ok(row)

(* key = tuple(sorted(row.items())): comparing the None key of a long row  *)
(* with a field name is a TypeError.                                       *)
Key(row) ==
    IF Len(row) > 1 /\ HasKey(row, RestKey) THEN Err("TypeError")
    ELSE Ok(SortedItems(row))

ZeroCounters ==
    [dupes |-> 0, missing_ts |-> 0, missing_ticker |-> 0, missing_price |-> 0,
     missing_action |-> 0, bad_action |-> 0, bad_price |-> 0, bad_qty |-> 0,
     parse_err |-> 0]

Bump(c, name) == [c EXCEPT ![name] = @ + 1]

-----------------------------------------------------------------------------
(* clean_data, phase 2: validation of one row (the loop body, lines 46-89) *)

Accept(txn) == <<"accept", txn>>
Reject(counter) == <<"reject", counter>>
Raise(e) == <<"raise", e>>

(* not row.get(f, "").strip() *)
Blank(row, f) ==
    LET v == Get(row, f, S(""))
    IN  IF ~IsStr(v) THEN "AttributeError"
        ELSE IF Strip(v[2]) = "" THEN "blank"
        ELSE "ok"

RequiredOrder ==
    << <<"timestamp", "missing_ts">>, <<"ticker", "missing_ticker">>,
       <<"price", "missing_price">>, <<"action", "missing_action">> >>

(* lines 47-58: the first required field, in order, that is blank or that  *)
(* has no strip().                                                         *)
RECURSIVE RequiredFrom(_, _)
RequiredFrom(row, n) ==
    IF n > Len(RequiredOrder) THEN <<"ok">>
    ELSE LET b == Blank(row, RequiredOrder[n][1])
         IN  IF b = "AttributeError" THEN Raise("AttributeError")
             ELSE IF b = "blank" THEN Reject(RequiredOrder[n][2])
             ELSE RequiredFrom(row, n + 1)

RequiredFields(row) == RequiredFrom(row, 1)

CheckValuesQtyFirst(action, price, quantity) ==
    IF action \notin {S("BUY"), S("SELL")} THEN "bad_action"
    ELSE IF LeZero(quantity) THEN "bad_qty"
    ELSE IF LeZero(price) THEN "bad_price"
    ELSE "ok"

(* lines 70-78 *)
CheckValues(action, price, quantity) ==
    IF action \notin {S("BUY"), S("SELL")} THEN "bad_action"
    ELSE IF LeZero(price) THEN "bad_price"
    ELSE IF LeZero(quantity) THEN "bad_qty"
    ELSE "ok"

Transaction(timestamp, ticker, action, quantity, price, trader_id) ==
    << <<"timestamp", timestamp>>, <<"ticker", ticker>>, <<"action", action>>,
       <<"quantity", quantity>>, <<"price", price>>, <<"trader_id", trader_id>> >>

(* lines 60-89: the try block. ValueError and KeyError are caught and      *)
(* counted; any other exception leaves clean_data.                         *)
TryBlock(row) ==
    LET ticker == S(Upper(Strip(Item(row, "ticker")[2])))
        action == S(Upper(Strip(Item(row, "action")[2])))
        price == FloatOf(Item(row, "price"))
        quantity == IF HasKey(row, "quantity") THEN IntOf(Item(row, "quantity"))
                    ELSE Err("KeyError")
        timestamp == Strptime(Strip(Item(row, "timestamp")[2]))
        trader == Get(row, "trader_id", S("UNKNOWN"))
        Caught(r) == r[2] \in {"ValueError", "KeyError"}
    IN  IF ~IsOk(price) THEN Reject("parse_err")
        ELSE IF ~IsOk(quantity)
             THEN IF Caught(quantity) THEN Reject("parse_err") ELSE Raise(quantity[2])
        ELSE IF ~IsOk(timestamp) THEN Reject("parse_err")
        ELSE IF ~IsStr(trader) THEN Raise("AttributeError")
        ELSE LET bad == CheckValues(action, price[2], quantity[2])
             IN  IF bad # "ok" THEN Reject(bad)
                 ELSE Accept(Transaction(timestamp[2], ticker, action, quantity[2],
                                         price[2], S(Strip(trader[2]))))

ValidateRow(row) ==
    LET req == RequiredFields(row)
    IN  IF req # <<"ok">> THEN req ELSE TryBlock(row)

-----------------------------------------------------------------------------
(* clean_data, phase 3: the log and the sort (lines 91-102) *)

MakeCleaningLogSlip(dup, c) ==
    dup \o << <<"missing_timestamp", c.missing_ts>>,
              <<"missing_ticker", c.missing_ticker>>,
              <<"missing_price", c.missing_price>>,
              <<"missing_action", c.missing_action>>,
              <<"invalid_action", c.bad_action>>,
              <<"negative_zero_price", c.bad_price>>,
              <<"zero_negative_qty", c.bad_qty>>,
              <<"parse_errors", c.bad_qty>> >>

(* lines 91-98, after line 32 has put "duplicates" first *)
MakeCleaningLog(dup, c) ==
    dup \o << <<"missing_timestamp", c.missing_ts>>,
              <<"missing_ticker", c.missing_ticker>>,
              <<"missing_price", c.missing_price>>,
              <<"missing_action", c.missing_action>>,
              <<"invalid_action", c.bad_action>>,
              <<"negative_zero_price", c.bad_price>>,
              <<"zero_negative_qty", c.bad_qty>>,
              <<"parse_errors", c.parse_err>> >>

RECURSIVE InsertUnstable(_, _)
InsertUnstable(sorted, txn) ==
    IF sorted = <<>> THEN <<txn>>
    ELSE IF ~DtLess(Item(Head(sorted), "timestamp"), Item(txn, "timestamp"))
         THEN <<txn>> \o sorted
         ELSE <<Head(sorted)>> \o InsertUnstable(Tail(sorted), txn)

(* list.sort is stable: an element goes after every element that does not *)
(* compare greater than it.                                                *)
RECURSIVE InsertByTimestamp(_, _)
InsertByTimestamp(sorted, txn) ==
    IF sorted = <<>> THEN <<txn>>
    ELSE IF DtLess(Item(txn, "timestamp"), Item(Head(sorted), "timestamp"))
         THEN <<txn>> \o sorted
         ELSE <<Head(sorted)>> \o InsertByTimestamp(Tail(sorted), txn)

RECURSIVE SortByTimestamp(_)
SortByTimestamp(txns) ==
    IF txns = <<>> THEN <<>>
    ELSE InsertByTimestamp(SortByTimestamp(SubSeq(txns, 1, Len(txns) - 1)),
                           txns[Len(txns)])

-----------------------------------------------------------------------------
(* Raw records, as csv.DictReader makes them (load_csv, lines 6-13): the   *)
(* items are in header order, a row shorter than the header has None for   *)
(* its last fields, a longer one has its surplus under the key None.       *)

R(ts, tk, ac, qt, pr, tr) ==
    << <<"timestamp", ts>>, <<"ticker", tk>>, <<"action", ac>>,
       <<"quantity", qt>>, <<"price", pr>>, <<"trader_id", tr>> >>

Rs(ts, tk, ac, qt, pr, tr) == R(S(ts), S(tk), S(ac), S(qt), S(pr), S(tr))

BaseRow == Rs(TsA, "AAPL", "BUY", "10", "100", "t1")

(* header timestamp,ticker,action,quantity,price,trader_id *)
RowsStandard ==
    { BaseRow,
      Rs(TsB, "AAPL", "BUY", "10", "100", "t1"),
      Rs(TsAPadded, "AAPL", "BUY", "10", "100", "t1"),
      Rs(TsA, " aapl ", "BUY", "10", "100", "t1"),
      Rs(TsA, "MSFT", "sell", " 7 ", "250", " t2 "),
      Rs(TsA, "AAPL", "BUY", "10", "0", "t1"),
      Rs(TsA, "AAPL", "BUY", "10", "nan", "t1"),
      Rs(TsA, "AAPL", "BUY", "10", " 100 ", "t1"),
      Rs(TsA, "AAPL", "HOLD", "10", "100", "t1"),
      Rs(TsA, "AAPL", "BUY", "", "100", "t1"),
      Rs(TsA, "AAPL", "BUY", "5.5", "100", "t1"),
      Rs(TsA, "AAPL", "BUY", "0", "100", "t1"),
      Rs(TsA, "AAPL", "BUY", "-3", "100", "t1"),
      (* two failing checks: the first in the order is the one counted *)
      Rs("", "", "BUY", "10", "100", "t1"),
      Rs(TsA, "  ", "BUY", "10", "", "t1"),
      Rs(TsA, "AAPL", "", "10", "", "t1"),
      Rs(TsA, "AAPL", "", "10", "abc", "t1"),
      Rs(TsA, "AAPL", "HOLD", "10", "abc", "t1"),
      Rs(TsMalformed, "AAPL", "HOLD", "10", "100", "t1"),
      Rs(TsA, "AAPL", "BUY", "abc", "-5", "t1"),
      Rs(TsA, "AAPL", "HOLD", "10", "-5", "t1"),
      Rs(TsA, "AAPL", "BUY", "0", "-5", "t1"),
      (* rows shorter than the header *)
      R(S(TsA), S("AAPL"), S("BUY"), S("10"), S("100"), None),
      R(S(TsA), S("AAPL"), S("HOLD"), S("10"), S("100"), None),
      R(S(TsMalformed), S("AAPL"), S("BUY"), S("10"), S("100"), None),
      R(S(TsA), S("AAPL"), S("BUY"), S("10"), None, None),
      R(S(TsA), S("AAPL"), None, None, None, None),
      R(S(TsA), None, None, None, None, None),
      R(S(""), S(""), None, None, None, None),
      (* a row longer than the header *)
      BaseRow \o << <<RestKey, RestList>> >> }

(* header timestamp,ticker,action,price,quantity,trader_id *)
R2(ts, tk, ac, pr, qt, tr) ==
    << <<"timestamp", ts>>, <<"ticker", tk>>, <<"action", ac>>,
       <<"price", pr>>, <<"quantity", qt>>, <<"trader_id", tr>> >>

RowsPriceFirst ==
    { R2(S(TsA), S("AAPL"), S("BUY"), S("100"), S("10"), S("t1")),
      R2(S(TsA), S("AAPL"), S("BUY"), S("100"), None, None),
      R2(S(TsA), S("AAPL"), S("BUY"), S("abc"), None, None) }

(* header timestamp,ticker,action,quantity,price: no trader_id column *)
RowsNoTrader ==
    { << <<"timestamp", S(TsB)>>, <<"ticker", S("AAPL")>>, <<"action", S("BUY")>>,
         <<"quantity", S("10")>>, <<"price", S("100")>> >>,
      << <<"timestamp", S(TsB)>>, <<"ticker", S("AAPL")>>, <<"action", S("BUY")>>,
         <<"quantity", S("10")>>, <<"price", None>> >> }

(* header timestamp,ticker,action,price,trader_id: no quantity column *)
RowsNoQuantity ==
    { << <<"timestamp", S(TsA)>>, <<"ticker", S("AAPL")>>, <<"action", S("BUY")>>,
         <<"price", S("100")>>, <<"trader_id", S("t1")>> >> }

FilesOfRows == {RowsStandard, RowsPriceFirst, RowsNoTrader, RowsNoQuantity}

RawRows == UNION FilesOfRows

(* the rows of one file share its header *)
FromLoader(rows) ==
    \E file \in FilesOfRows : \A n \in 1..Len(rows) : rows[n] \in file

(* well-formed rows that differ in time, ticker and trader, and one that   *)
(* is rejected                                                             *)
PipelineRows ==
    { Rs(TsA, "AAPL", "BUY", "10", "100", "t1"),
      Rs(TsA, "msft", "BUY", "10", "100", "t2"),
      Rs(TsB, "AAPL", "BUY", "10", "100", "t1"),
      Rs(TsB, "AAPL", "BUY", "10", "100", "t2"),
      Rs(TsB, "msft", "BUY", "10", "100", "t1"),
      Rs(TsC, "AAPL", "BUY", "10", "100", "t2"),
      Rs(TsC, "msft", "BUY", "10", "100", "t1"),
      Rs(TsB, "AAPL", "HOLD", "10", "100", "t1") }

BoundedSeq(X, n) == UNION {[1..k -> X] : k \in 0..n}

MaxRows == 2
MaxPipelineRows == 3

-----------------------------------------------------------------------------
(* State machine of clean_data *)

Fresh(rows) ==
    /\ raw_rows = rows
    /\ pc = "dedup"
    /\ i = 1
    /\ seen = {}
    /\ unique = <<>>
    /\ cnt = ZeroCounters
    /\ clean = <<>>
    /\ cleaning_log = <<>>
    /\ exc = "none"
    /\ run = 1
    /\ report = <<>>
    /\ index = <<>>
    /\ summary = <<>>
    /\ lookup = <<>>

Init == \E rows \in BoundedSeq(RawRows, MaxRows) : Fresh(rows)

InitPipeline == \E rows \in BoundedSeq(PipelineRows, MaxPipelineRows) : Fresh(rows)

(* lines 24-31, one iteration *)
DedupRow ==
    /\ pc = "dedup"
    /\ i <= Len(raw_rows)
    /\ LET key == Key(raw_rows[i])
       IN  IF ~IsOk(key)
           THEN /\ pc' = "raised"
                /\ exc' = key[2]
                /\ UNCHANGED <<i, seen, unique, cnt>>
           ELSE IF key[2] \in seen
           THEN /\ cnt' = Bump(cnt, "dupes")
                /\ i' = i + 1
                /\ UNCHANGED <<pc, exc, seen, unique>>
           ELSE /\ seen' = seen \cup {key[2]}
                /\ unique' = Append(unique, raw_rows[i])
                /\ i' = i + 1
                /\ UNCHANGED <<pc, exc, cnt>>
    /\ UNCHANGED <<raw_rows, clean, cleaning_log, run, report, index, summary, lookup>>

(* line 32, then the counters of lines 35-43 *)
EndDedup ==
    /\ pc = "dedup"
    /\ i > Len(raw_rows)
    /\ cleaning_log' = << <<"duplicates", cnt.dupes>> >>
    /\ pc' = "validate"
    /\ i' = 1
    /\ UNCHANGED <<raw_rows, seen, unique, cnt, clean, exc, run, report, index,
                   summary, lookup>>

(* lines 45-89, one iteration *)
ValidateStep ==
    /\ pc = "validate"
    /\ i <= Len(unique)
    /\ LET out == ValidateRow(unique[i])
       IN  CASE out[1] = "raise" ->
                  /\ pc' = "raised"
                  /\ exc' = out[2]
                  /\ UNCHANGED <<i, cnt, clean>>
             [] out[1] = "reject" ->
                  /\ cnt' = Bump(cnt, out[2])
                  /\ i' = i + 1
                  /\ UNCHANGED <<pc, exc, clean>>
             [] out[1] = "accept" ->
                  /\ clean' = Append(clean, out[2])
                  /\ i' = i + 1
                  /\ UNCHANGED <<pc, exc, cnt>>
    /\ UNCHANGED <<raw_rows, seen, unique, cleaning_log, run, report, index,
                   summary, lookup>>

(* lines 91-102 *)
SortReturn ==
    /\ pc = "validate"
    /\ i > Len(unique)
    /\ cleaning_log' = MakeCleaningLog(cleaning_log, cnt)
    /\ clean' = SortByTimestamp(clean)
    /\ pc' = "done"
    /\ UNCHANGED <<raw_rows, i, seen, unique, cnt, exc, run, report, index,
                   summary, lookup>>

CleanData == DedupRow \/ EndDedup \/ ValidateStep \/ SortReturn

-----------------------------------------------------------------------------
(* Report, index and analytics: pure functions of clean_data's result *)

RECURSIVE NonZeroLines(_)
NonZeroLines(log) ==
    IF log = <<>> THEN <<>>
    ELSE (IF Head(log)[2] > 0 THEN <<Head(log)>> ELSE <<>>) \o NonZeroLines(Tail(log))

(* lines 208-215: the header counts, one line per nonzero reason, the total *)
format_cleaning_log(log, total_raw, total_clean) ==
    [raw_rows |-> total_raw, clean_rows |-> total_clean,
     lines |-> NonZeroLines(log), total_removed |-> total_raw - total_clean]

(* d[k] = f(d[k]) on a dict in insertion order; a new key goes last *)
Put(d, k, v) ==
    IF HasKey(d, k)
    THEN [n \in 1..Len(d) |-> IF d[n][1] = k THEN <<k, v>> ELSE d[n]]
    ELSE Append(d, <<k, v>>)

(* lines 105-110 *)
RECURSIVE build_ticker_index(_)
build_ticker_index(transactions) ==
    IF transactions = <<>> THEN <<>>
    ELSE LET rest == build_ticker_index(SubSeq(transactions, 1, Len(transactions) - 1))
             txn == transactions[Len(transactions)]
             k == Item(txn, "ticker")
         IN  Put(rest, k, Append(Get(rest, k, <<>>), txn))

get_by_ticker_as_typed(idx, ticker) == Get(idx, S(ticker), <<>>)

(* lines 113-115 *)
get_by_ticker(idx, ticker) == Get(idx, S(Upper(ticker)), <<>>)

(* Python numbers: + and >, with nan *)
NumAdd(a, b) ==
    CASE a[1] = "int" /\ b[1] = "int" -> I(a[2] + b[2])
      [] a[1] = "float" /\ b[1] = "float" ->
            IF a[2] = "nan" \/ b[2] = "nan" THEN NaN ELSE F(a[3] + b[3])

NumMul(a, b) ==
    CASE a[1] = "int" /\ b[1] = "float" ->
            IF b[2] = "nan" THEN NaN ELSE F(a[2] * b[3])

NumGreater(a, b) ==
    CASE a[1] = "int" /\ b[1] = "int" -> a[2] > b[2]
      [] a[1] = "float" /\ b[1] = "float" ->
            a[2] = "num" /\ b[2] = "num" /\ a[3] > b[3]

(* counts[k] += v on a defaultdict *)
AddTo(d, k, v, zero) == Put(d, k, NumAdd(Get(d, k, zero), v))

RECURSIVE CountBy(_, _)
CountBy(transactions, field) ==
    IF transactions = <<>> THEN <<>>
    ELSE AddTo(CountBy(SubSeq(transactions, 1, Len(transactions) - 1), field),
               Item(transactions[Len(transactions)], field), I(1), I(0))

RECURSIVE InsertByCountTiesLast(_, _)
InsertByCountTiesLast(sorted, item) ==
    IF sorted = <<>> THEN <<item>>
    ELSE IF ~NumGreater(Head(sorted)[2], item[2])
         THEN <<item>> \o sorted
         ELSE <<Head(sorted)>> \o InsertByCountTiesLast(Tail(sorted), item)

(* sorted(..., key=count, reverse=True) keeps equal counts in their order *)
RECURSIVE InsertByCountDesc(_, _)
InsertByCountDesc(sorted, item) ==
    IF sorted = <<>> THEN <<item>>
    ELSE IF NumGreater(item[2], Head(sorted)[2])
         THEN <<item>> \o sorted
         ELSE <<Head(sorted)>> \o InsertByCountDesc(Tail(sorted), item)

RECURSIVE SortByCountDesc(_)
SortByCountDesc(items) ==
    IF items = <<>> THEN <<>>
    ELSE InsertByCountDesc(SortByCountDesc(SubSeq(items, 1, Len(items) - 1)),
                           items[Len(items)])

Min(a, b) == IF a < b THEN a ELSE b

(* lines 148-154 *)
most_active_traders(transactions, top_n) ==
    LET sorted_traders == SortByCountDesc(CountBy(transactions, "trader_id"))
    IN  SubSeq(sorted_traders, 1, Min(top_n, Len(sorted_traders)))

top_n_default == 10

(* sorted(d.items()) on int keys *)
RECURSIVE InsertByKey(_, _)
InsertByKey(sorted, item) ==
    IF sorted = <<>> THEN <<item>>
    ELSE IF item[1][2] < Head(sorted)[1][2]
         THEN <<item>> \o sorted
         ELSE <<Head(sorted)>> \o InsertByKey(Tail(sorted), item)

RECURSIVE SortByKey(_)
SortByKey(items) ==
    IF items = <<>> THEN <<>>
    ELSE InsertByKey(SortByKey(SubSeq(items, 1, Len(items) - 1)), items[Len(items)])

(* max(d, key=d.get): the first key, in the dict's order, that no later key *)
(* beats.                                                                   *)
MaxKey(d) ==
    LET RECURSIVE From(_, _)
        From(n, best) ==
            IF n > Len(d) THEN d[best][1]
            ELSE From(n + 1, IF NumGreater(d[n][2], d[best][2]) THEN n ELSE best)
    IN  From(2, 1)

PeakHourOfSorted(hourly) ==
    IF hourly # <<>> THEN MaxKey(SortByKey(hourly)) ELSE S("N/A")

(* line 173 *)
PeakHour(hourly) == IF hourly # <<>> THEN MaxKey(hourly) ELSE S("N/A")

(* t["timestamp"].hour and .strftime("%Y-%m-%d") *)
HourOf(ts) == I(ts[3])
DayOf(ts) == S(CASE ts[2] = 1 -> "2024-01-01" [] ts[2] = 2 -> "2024-01-02")

RECURSIVE Hourly(_)
Hourly(transactions) ==
    IF transactions = <<>> THEN <<>>
    ELSE AddTo(Hourly(SubSeq(transactions, 1, Len(transactions) - 1)),
               HourOf(Item(transactions[Len(transactions)], "timestamp")), I(1), I(0))

RECURSIVE DailyVol(_)
DailyVol(transactions) ==
    IF transactions = <<>> THEN <<>>
    ELSE LET t == transactions[Len(transactions)]
         IN  AddTo(DailyVol(SubSeq(transactions, 1, Len(transactions) - 1)),
                   DayOf(Item(t, "timestamp")),
                   NumMul(Item(t, "quantity"), Item(t, "price")), F(0))

(* lines 157-182; every timestamp of the model is in one month *)
time_based_analysis(transactions) ==
    LET hourly == Hourly(transactions)
        daily_vol == DailyVol(transactions)
        peak_day == IF daily_vol # <<>> THEN MaxKey(daily_vol) ELSE S("N/A")
    IN  [monthly |-> IF transactions = <<>> THEN <<>>
                     ELSE << <<S("2024-01"), I(Len(transactions))>> >>,
         hourly |-> SortByKey(hourly),
         peak_day |-> peak_day,
         peak_day_volume |-> Get(daily_vol, peak_day, I(0)),
         peak_hour |-> PeakHour(hourly),
         trading_days |-> Len(daily_vol)]

(* lines 185-205: the entries that rank traders and analyse time *)
get_summary(transactions, idx) ==
    [total_transactions |-> Len(transactions),
     most_active_traders |-> most_active_traders(transactions, top_n_default),
     time_analysis |-> time_based_analysis(transactions)]

-----------------------------------------------------------------------------
(* The callers of clean_data: the script of lines 218-241 and dashboard.py *)

(* format_cleaning_log(log, len(raw), len(transactions)) *)
FormatCleaningLog ==
    /\ pc = "done"
    /\ report' = format_cleaning_log(cleaning_log, Len(raw_rows), Len(clean))
    /\ pc' = "reported"
    /\ UNCHANGED <<raw_rows, i, seen, unique, cnt, clean, cleaning_log, exc, run,
                   index, summary, lookup>>

(* index = build_ticker_index(transactions) *)
BuildTickerIndex ==
    /\ pc = "done"
    /\ index' = build_ticker_index(clean)
    /\ pc' = "indexed"
    /\ UNCHANGED <<raw_rows, i, seen, unique, cnt, clean, cleaning_log, exc, run,
                   report, summary, lookup>>

(* summary = get_summary(transactions, index) *)
GetSummary ==
    /\ pc = "indexed"
    /\ summary' = get_summary(clean, index)
    /\ pc' = "summarised"
    /\ UNCHANGED <<raw_rows, i, seen, unique, cnt, clean, cleaning_log, exc, run,
                   report, index, lookup>>

Queries == {"AAPL", "aapl", " aapl ", "MSFT", "msft", "goog"}

(* get_by_ticker(index, ticker), for a ticker string of the caller *)
GetByTicker ==
    /\ pc = "summarised"
    /\ \E q \in Queries :
          lookup' = [ticker |-> q, results |-> get_by_ticker(index, q)]
    /\ pc' = "looked_up"
    /\ UNCHANGED <<raw_rows, i, seen, unique, cnt, clean, cleaning_log, exc, run,
                   report, index, summary>>

(* clean_data on the Transactions a first run returned *)
Rerun ==
    /\ pc = "done"
    /\ run = 1
    /\ raw_rows' = clean
    /\ pc' = "dedup"
    /\ i' = 1
    /\ seen' = {}
    /\ unique' = <<>>
    /\ cnt' = ZeroCounters
    /\ clean' = <<>>
    /\ cleaning_log' = <<>>
    /\ run' = 2
    /\ UNCHANGED <<exc, report, index, summary, lookup>>

(* Rows of many traders: up to MaxPrefix rows of chosen traders, then one  *)
(* row of each of the first k traders.                                     *)
MaxPrefix == 2
MaxTraders == 11

TraderId(n) == ToString(n)
PrefixTraders == {1, 5, MaxTraders}
PrefixTs == <<TsA, TsB, TsC>>

TraderRows(prefix, k) ==
    [n \in 1..Len(prefix) |->
        Rs(PrefixTs[n], "AAPL", "BUY", "10", "100", TraderId(prefix[n]))]
    \o [n \in 1..k |-> Rs(TsC, "AAPL", "BUY", "10", "100", TraderId(n))]

InitTraders ==
    \E prefix \in BoundedSeq(PrefixTraders, MaxPrefix), k \in 0..MaxTraders :
        Fresh(TraderRows(prefix, k))

Next == CleanData \/ FormatCleaningLog

NextPipeline == CleanData \/ Rerun \/ BuildTickerIndex \/ GetSummary \/ GetByTicker

NextTraders == CleanData \/ BuildTickerIndex \/ GetSummary

Spec == Init /\ [][Next]_vars

SpecPipeline == InitPipeline /\ [][NextPipeline]_vars

SpecTraders == InitTraders /\ [][NextTraders]_vars

-----------------------------------------------------------------------------
(* Properties *)

Returned == pc \in {"done", "reported", "indexed", "summarised", "looked_up"}

RECURSIVE SumCounts(_)
SumCounts(log) == IF log = <<>> THEN 0 ELSE Head(log)[2] + SumCounts(Tail(log))

Items(d) == {d[n] : n \in 1..Len(d)}

(* the checks of the cleaning contract, in their order, as the log labels *)
Missing(row, f) ==
    \/ ~HasKey(row, f)
    \/ IsNone(Item(row, f))
    \/ Strip(Item(row, f)[2]) = ""

ParseFails(row) ==
    \/ ~IsOk(ParseFloat(Item(row, "price")[2]))
    \/ ~HasKey(row, "quantity")
    \/ IsNone(Item(row, "quantity"))
    \/ ~IsOk(ParseInt(Item(row, "quantity")[2]))
    \/ ~IsOk(Strptime(Strip(Item(row, "timestamp")[2])))

FirstFailing(row) ==
    IF Missing(row, "timestamp") THEN "missing_timestamp"
    ELSE IF Missing(row, "ticker") THEN "missing_ticker"
    ELSE IF Missing(row, "price") THEN "missing_price"
    ELSE IF Missing(row, "action") THEN "missing_action"
    ELSE IF ParseFails(row) THEN "parse_errors"
    ELSE IF Upper(Strip(Item(row, "action")[2])) \notin {"BUY", "SELL"}
         THEN "invalid_action"
    ELSE IF LeZero(ParseFloat(Item(row, "price")[2])[2]) THEN "negative_zero_price"
    ELSE IF LeZero(ParseInt(Item(row, "quantity")[2])[2]) THEN "zero_negative_qty"
    ELSE "none"

ValidationLabels ==
    {"missing_timestamp", "missing_ticker", "missing_price", "missing_action",
     "parse_errors", "invalid_action", "negative_zero_price", "zero_negative_qty"}

FailingChecks(row) ==
    {f \in {"timestamp", "ticker", "price", "action"} : Missing(row, f)}
    \cup (IF \E f \in {"timestamp", "ticker", "price", "action"} : Missing(row, f)
          THEN {}
          ELSE (IF ParseFails(row) THEN {"parse"} ELSE {})
               \cup (IF Upper(Strip(Item(row, "action")[2])) \notin {"BUY", "SELL"}
                     THEN {"action_value"} ELSE {})
               \cup (IF IsOk(ParseFloat(Item(row, "price")[2]))
                        /\ LeZero(ParseFloat(Item(row, "price")[2])[2])
                     THEN {"price_value"} ELSE {}))

(* the local counter that lines 91-98 store under a label *)
CounterOf(label) ==
    CASE label = "missing_timestamp" -> "missing_ts"
      [] label = "missing_ticker" -> "missing_ticker"
      [] label = "missing_price" -> "missing_price"
      [] label = "missing_action" -> "missing_action"
      [] label = "parse_errors" -> "parse_err"
      [] label = "invalid_action" -> "bad_action"
      [] label = "negative_zero_price" -> "bad_price"
      [] label = "zero_negative_qty" -> "bad_qty"

FirstFailingAmong(rows, n, label) ==
    Cardinality({m \in 1..n : FirstFailing(rows[m]) = label})

(* C1: each counter of a validation check holds the number of deduplicated *)
(* records, among those validated so far, whose first failing check in the *)
(* fixed order is that check, and the records that fail no check are the   *)
(* accepted ones: a rejected record is counted once, under its first       *)
(* failing check, and the returned log holds these counts.                 *)
C1_FirstFailingCheckCounted ==
    /\ (run = 1 /\ pc \in {"validate", "raised"} /\ cleaning_log # <<>>) =>
          /\ \A label \in ValidationLabels :
                cnt[CounterOf(label)] = FirstFailingAmong(unique, i - 1, label)
          /\ Len(clean) = FirstFailingAmong(unique, i - 1, "none")
    /\ (run = 1 /\ Returned) =>
          /\ \A label \in ValidationLabels :
                Item(cleaning_log, label) = FirstFailingAmong(unique, Len(unique), label)
          /\ Len(clean) = FirstFailingAmong(unique, Len(unique), "none")

(* a returned run with a record that fails two checks, counted once *)
C1_Witness ==
    /\ pc = "done"
    /\ run = 1
    /\ \E n \in 1..Len(unique) : Cardinality(FailingChecks(unique[n])) >= 2
    /\ SumCounts(cleaning_log) = Len(raw_rows)

(* C2: clean_data raises for no sequence of records the loader produces.   *)
C2_NeverRaises == (run = 1 /\ FromLoader(raw_rows)) => pc # "raised"

GtZero(v) ==
    CASE v[1] = "int" -> v[2] > 0
      [] v[1] = "float" -> v[2] = "num" /\ v[3] > 0

(* C3: every returned Transaction has quantity > 0, price > 0, action BUY  *)
(* or SELL, and a non-empty uppercase ticker.                              *)
C3_TransactionsValid ==
    (Returned /\ run = 1) =>
        \A n \in 1..Len(clean) :
            /\ GtZero(Item(clean[n], "quantity"))
            /\ GtZero(Item(clean[n], "price"))
            /\ Item(clean[n], "action") \in {S("BUY"), S("SELL")}
            /\ IsStr(Item(clean[n], "ticker"))
            /\ Item(clean[n], "ticker")[2] # ""
            /\ Upper(Item(clean[n], "ticker")[2]) = Item(clean[n], "ticker")[2]

SameMapping(a, b) == Items(a) = Items(b)

RECURSIVE FirstOccurrences(_)
FirstOccurrences(rows) ==
    IF rows = <<>> THEN <<>>
    ELSE LET before == SubSeq(rows, 1, Len(rows) - 1)
             last == rows[Len(rows)]
         IN  IF \E m \in 1..Len(before) : SameMapping(before[m], last)
             THEN FirstOccurrences(before)
             ELSE Append(FirstOccurrences(before), last)

(* C4: phase 1 keeps the first record of each field-to-value mapping,      *)
(* whatever the order of its fields, and drops the later ones; duplicates  *)
(* counts the dropped records and no other counter does.                   *)
C4_FirstOccurrenceKept ==
    (run = 1 /\ (pc = "validate" \/ Returned)) =>
        /\ unique = FirstOccurrences(raw_rows)
        /\ Item(cleaning_log, "duplicates") = Len(raw_rows) - Len(unique)
        /\ Returned =>
              SumCounts(cleaning_log) - Item(cleaning_log, "duplicates")
                  = Len(unique) - Len(clean)

(* a returned run that dropped a record whose fields are in another order *)
C4_Witness ==
    /\ pc = "done"
    /\ run = 1
    /\ Item(cleaning_log, "duplicates") = 1
    /\ Len(raw_rows) = 2
    /\ raw_rows[1] # raw_rows[2]
    /\ unique = <<raw_rows[1]>>

(* C10: every raw record is accepted or counted once, so the raw count is  *)
(* the clean count plus the sum of the log, and the report's total removed *)
(* is the sum of the counts on its reason lines.                           *)
C10_Conservation ==
    /\ (Returned /\ run = 1) => Len(raw_rows) = Len(clean) + SumCounts(cleaning_log)
    /\ pc = "reported" =>
          /\ report.total_removed = SumCounts(report.lines)
          /\ report.raw_rows = Len(raw_rows)
          /\ report.clean_rows = Len(clean)

(* a report with a duplicate and a parse error *)
C10_Witness ==
    /\ pc = "reported"
    /\ Len(report.lines) = 2
    /\ report.lines[1][1] = "duplicates"
    /\ report.lines[2][1] = "parse_errors"
    /\ report.total_removed = 2


TsOf(txn) == Item(txn, "timestamp")

WithTs(txns, ts) == SelectSeq(txns, LAMBDA t : TsOf(t) = ts)

(* the Transactions of the accepted records, in the order of the input *)
RECURSIVE AcceptedInInputOrder(_)
AcceptedInInputOrder(rows) ==
    IF rows = <<>> THEN <<>>
    ELSE LET out == ValidateRow(Head(rows))
         IN  (IF out[1] = "accept" THEN <<out[2]>> ELSE <<>>)
             \o AcceptedInInputOrder(Tail(rows))

(* C5: the returned sequence is non-decreasing by timestamp, and the       *)
(* Transactions of one timestamp are in the order of their records in the  *)
(* input.                                                                  *)
C5_SortedAndStable ==
    (Returned /\ run = 1) =>
        /\ \A m, n \in 1..Len(clean) : m < n => ~DtLess(TsOf(clean[n]), TsOf(clean[m]))
        /\ Len(clean) = Len(AcceptedInInputOrder(FirstOccurrences(raw_rows)))
        /\ \A n \in 1..Len(clean) :
              WithTs(clean, TsOf(clean[n]))
                  = WithTs(AcceptedInInputOrder(FirstOccurrences(raw_rows)), TsOf(clean[n]))

(* a returned run whose input was out of time order and had two different  *)
(* records of one timestamp                                                *)
C5_Witness ==
    /\ pc = "done"
    /\ run = 1
    /\ Len(clean) = 3
    /\ clean # AcceptedInInputOrder(raw_rows)
    /\ \E n \in 1..2 : TsOf(clean[n]) = TsOf(clean[n + 1]) /\ clean[n] # clean[n + 1]

(* C6: a second run, on the Transactions of the first, returns them with   *)
(* every counter of its log at 0.                                          *)
C6_Idempotent ==
    (run = 2 /\ (Returned \/ pc = "raised")) =>
        /\ Returned
        /\ SumCounts(cleaning_log) = 0
        /\ clean = raw_rows

(* C7: a lookup returns the Transactions whose ticker is the uppercased    *)
(* query, in their order (none for an unknown ticker), so a lowercase      *)
(* query returns what the uppercase one does.                              *)
C7_LookupByUppercasedTicker ==
    /\ pc = "looked_up" =>
          lookup.results
              = SelectSeq(clean, LAMBDA t : Item(t, "ticker") = S(Upper(lookup.ticker)))
    /\ pc \in {"indexed", "summarised", "looked_up"} =>
          \A q \in Queries : get_by_ticker(index, q) = get_by_ticker(index, Upper(q))

(* a lowercase query that found some of the Transactions, not all *)
C7_Witness ==
    /\ pc = "looked_up"
    /\ lookup.ticker = "aapl"
    /\ Len(lookup.results) = 2
    /\ Len(clean) = 3

HourCount(txns, h) == Len(SelectSeq(txns, LAMBDA t : HourOf(TsOf(t)) = h))

Hours(txns) == {HourOf(TsOf(txns[n])) : n \in 1..Len(txns)}

BusiestHours(txns) ==
    {h \in Hours(txns) : \A g \in Hours(txns) : HourCount(txns, g) <= HourCount(txns, h)}

FirstSeen(txns, h) == CHOOSE n \in 1..Len(txns) :
    /\ HourOf(TsOf(txns[n])) = h
    /\ \A m \in 1..(n - 1) : HourOf(TsOf(txns[m])) # h

(* C8 as claimed: peak_hour is the smallest of the hours with the highest  *)
(* count, and the sentinel when there is no transaction.                   *)
C8_PeakHourSmallestOfTies ==
    (pc = "summarised" /\ run = 1) =>
        IF clean = <<>> THEN summary.time_analysis.peak_hour = S("N/A")
        ELSE /\ summary.time_analysis.peak_hour \in BusiestHours(clean)
             /\ \A h \in BusiestHours(clean) :
                   summary.time_analysis.peak_hour[2] <= h[2]

(* C8 amended: peak_hour is, of the hours with the highest count, the one  *)
(* met first in the time-sorted sequence, and the sentinel when there is   *)
(* no transaction.                                                         *)
C8_PeakHourFirstSeenOfTies ==
    (pc = "summarised" /\ run = 1) =>
        IF clean = <<>> THEN summary.time_analysis.peak_hour = S("N/A")
        ELSE /\ summary.time_analysis.peak_hour \in BusiestHours(clean)
             /\ \A h \in BusiestHours(clean) :
                   FirstSeen(clean, summary.time_analysis.peak_hour)
                       <= FirstSeen(clean, h)

(* two hours share the highest count and the later hour of day came first *)
C8_Witness ==
    /\ pc = "summarised"
    /\ run = 1
    /\ Cardinality(BusiestHours(clean)) = 2
    /\ summary.time_analysis.peak_hour = I(15)
    /\ I(9) \in BusiestHours(clean)

TraderOf(txn) == Item(txn, "trader_id")

Traders(txns) == {TraderOf(txns[n]) : n \in 1..Len(txns)}

TraderCount(txns, tr) == Len(SelectSeq(txns, LAMBDA t : TraderOf(t) = tr))

FirstOf(txns, tr) == CHOOSE n \in 1..Len(txns) :
    /\ TraderOf(txns[n]) = tr
    /\ \A m \in 1..(n - 1) : TraderOf(txns[m]) # tr

(* a ranks before b: more transactions, or as many and met earlier *)
RanksBefore(txns, a, b) ==
    \/ TraderCount(txns, a) > TraderCount(txns, b)
    \/ /\ TraderCount(txns, a) = TraderCount(txns, b)
       /\ FirstOf(txns, a) < FirstOf(txns, b)

(* C9: most_active_traders is the first min(10, traders) pairs of the      *)
(* ranking by descending count, equal counts by first appearance in the    *)
(* time-sorted sequence, each trader with the number of its Transactions.  *)
C9_TopTradersRanked ==
    (pc = "summarised" /\ run = 1) =>
        LET top == summary.most_active_traders
            inTop == {top[n][1] : n \in 1..Len(top)}
        IN  /\ Len(top) = Min(10, Cardinality(Traders(clean)))
            /\ \A n \in 1..Len(top) :
                  /\ top[n][1] \in Traders(clean)
                  /\ top[n][2] = I(TraderCount(clean, top[n][1]))
            /\ \A m, n \in 1..Len(top) :
                  m < n => RanksBefore(clean, top[m][1], top[n][1])
            /\ \A tr \in Traders(clean) \ inTop :
                  \A n \in 1..Len(top) : RanksBefore(clean, top[n][1], tr)

(* eleven traders: ten are returned, a trader with two Transactions first, *)
(* then traders with one each in the order they were met                   *)
C9_Witness ==
    /\ pc = "summarised"
    /\ Cardinality(Traders(clean)) = 11
    /\ Len(summary.most_active_traders) = 10
    /\ summary.most_active_traders[1] = <<S("5"), I(2)>>
    /\ summary.most_active_traders[2] = <<S("11"), I(1)>>
    /\ summary.most_active_traders[3] = <<S("1"), I(1)>>

====
